---- MODULE Spec2Model ----
(***************************************************************************)
(* A model of backend/src/dol.rs: the DOL container codec.                 *)
(*                                                                         *)
(* A u32 is kept at its full width as a pair <<hi, lo>> of 16-bit halves  *)
(* (value = hi * 2^16 + lo), so that additions overflow exactly where the  *)
(* program's do.  A usize (a length, an index, a file position) is a       *)
(* natural number.  A byte buffer is a sequence of numbers in 0..255; the  *)
(* Rust index i is the TLA+ index i + 1.                                   *)
(***************************************************************************)
EXTENDS Integers, Sequences, FiniteSets, TLC

VARIABLES image, file, pc, overflow_checks, last

vars == <<image, file, pc, overflow_checks, last>>

(***************************************************************************)
(* Bounds of the model.                                                    *)
(***************************************************************************)
\* the most text sections of a constructed image
MaxText == 2
\* the most data sections of a constructed image
MaxDataSecs == 1
\* the most instructions of one patch call
MaxEdits == 2

(***************************************************************************)
(* Program constants.                                                      *)
(***************************************************************************)
\* [u32; 7]
TextCap == 7
\* [u32; 11]
DataCap == 11
\* vec![0; 256], let mut offset = 256
HeaderSize == 256

(***************************************************************************)
(* u32 arithmetic.                                                         *)
(***************************************************************************)
Half == 2 ^ 16

U32Zero == <<0, 0>>

\* `n as u32` of a usize n: the low 32 bits
AsU32(n) == <<(n \div Half) % Half, n % Half>>

\* `v as usize`, used where the value is known to be small
AsUsize(v) == v[1] * Half + v[2]

\* a <= b and a < b on u32
LeU32(a, b) == a[1] < b[1] \/ (a[1] = b[1] /\ a[2] <= b[2])
LtU32(a, b) == a[1] < b[1] \/ (a[1] = b[1] /\ a[2] < b[2])

\* a + b on u32: the wrapped sum, and whether the true sum left the type
AddU32(a, b) ==
    LET lo == a[2] + b[2]
        hi == a[1] + b[1] + (lo \div Half)
    IN  [value |-> <<hi % Half, lo % Half>>, overflow |-> hi >= Half]

\* a - b on u32, for a >= b
SubU32(a, b) ==
    LET borrow == IF a[2] < b[2] THEN 1 ELSE 0
    IN  <<a[1] - b[1] - borrow, (a[2] + borrow * Half) - b[2]>>

(***************************************************************************)
(* Big-endian words in byte buffers.                                       *)
(***************************************************************************)
\* a faulty variant of BEBytes: the bytes in little-endian order
LEBytes(value) ==
    <<value[2] % 256, value[2] \div 256, value[1] % 256, value[1] \div 256>>

\* the four bytes BE::write_u32 stores for value
BEBytes(value) ==
    <<value[1] \div 256, value[1] % 256, value[2] \div 256, value[2] % 256>>

\* write_u32(&mut data[at..], value): at <= len is the caller's slice, the
\* four-byte room is byteorder's own check
CanWriteU32(data, at) == at + 4 <= Len(data)

write_u32(data, at, value) ==
    [p \in 1..Len(data) |->
        IF p > at /\ p <= at + 4 THEN BEBytes(value)[p - at] ELSE data[p]]

\* read_u32(&data[at..]): panics unless four bytes are there
CanReadU32(data, at) == at + 4 <= Len(data)

read_u32(data, at) ==
    <<data[at + 1] * 256 + data[at + 2], data[at + 3] * 256 + data[at + 4]>>

(***************************************************************************)
(* Section, DolFile, DolHeader.                                            *)
(***************************************************************************)
Section(address, data) == [address |-> address, data |-> data]

DolFile(text_sections, data_sections, bss_address, bss_size, entry_point) ==
    [text_sections |-> text_sections, data_sections |-> data_sections,
     bss_address |-> bss_address, bss_size |-> bss_size,
     entry_point |-> entry_point]

\* what an operation that panicked leaves in place of its return value
Panicked == [status |-> "panic"]

Zeros(n) == [i \in 1..n |-> U32Zero]

\* DolHeader::new
DolHeader_new ==
    [text_section_offsets |-> Zeros(TextCap),
     data_section_offsets |-> Zeros(DataCap),
     text_section_addresses |-> Zeros(TextCap),
     data_section_addresses |-> Zeros(DataCap),
     text_section_sizes |-> Zeros(TextCap),
     data_section_sizes |-> Zeros(DataCap),
     bss_address |-> U32Zero, bss_size |-> U32Zero, entry_point |-> U32Zero]

\* a faulty variant of HeaderWords: the size tables are written before the address
\* tables
HeaderWordsSizesFirst(header) ==
    header.text_section_offsets \o header.data_section_offsets
    \o header.text_section_sizes \o header.data_section_sizes
    \o header.text_section_addresses \o header.data_section_addresses
    \o <<header.bss_address, header.bss_size, header.entry_point>>

\* the words DolHeader::to_bytes writes, in the order it writes them
HeaderWords(header) ==
    header.text_section_offsets \o header.data_section_offsets
    \o header.text_section_addresses \o header.data_section_addresses
    \o header.text_section_sizes \o header.data_section_sizes
    \o <<header.bss_address, header.bss_size, header.entry_point>>

\* DolHeader::to_bytes: 256 zero bytes, then one word every four bytes from 0
DolHeader_to_bytes(header) ==
    LET words == HeaderWords(header)
    IN  [p \in 1..HeaderSize |->
            LET w == (p - 1) \div 4
            IN  IF w < Len(words) THEN BEBytes(words[w + 1])[((p - 1) % 4) + 1]
                ELSE 0]

(***************************************************************************)
(* read_sections and DolFile::parse.                                       *)
(***************************************************************************)
\* a faulty variant of SlotEnds: a slot of size 0 does not stop the scan
SlotNeverEnds(length) == FALSE

\* if length == 0 { break; }
SlotEnds(length) == length = U32Zero

RECURSIVE read_sections_from(_, _, _, _, _, _, _)
read_sections_from(data, offsets_offset, addresses_offset, lengths_offset, max, i, sections) ==
    IF i >= max THEN [status |-> "ok", sections |-> sections]
    ELSE IF \/ ~CanReadU32(data, 4 * i + offsets_offset)
            \/ ~CanReadU32(data, 4 * i + addresses_offset)
            \/ ~CanReadU32(data, 4 * i + lengths_offset)
    THEN Panicked
    ELSE
      LET offset == read_u32(data, 4 * i + offsets_offset)
          address == read_u32(data, 4 * i + addresses_offset)
          length == read_u32(data, 4 * i + lengths_offset)
          end == AddU32(offset, length)
      IN  IF SlotEnds(length) THEN [status |-> "ok", sections |-> sections]
          \* offset + length: a debug build panics on overflow, a release
          \* build wraps, and the slice then starts after its end
          ELSE IF end.overflow /\ overflow_checks THEN Panicked
          ELSE IF \/ LtU32(end.value, offset)
                  \/ LtU32(AsU32(Len(data)), end.value)
          THEN Panicked
          ELSE read_sections_from(
                 data, offsets_offset, addresses_offset, lengths_offset, max,
                 i + 1,
                 Append(sections,
                        Section(address,
                                SubSeq(data, AsUsize(offset) + 1,
                                       AsUsize(end.value)))))

read_sections(data, offsets_offset, addresses_offset, lengths_offset, max) ==
    read_sections_from(data, offsets_offset, addresses_offset, lengths_offset,
                       max, 0, <<>>)

\* DolFile::parse: [status |-> "ok", value |-> DolFile] or a panic
parse(data) ==
    LET text_sections == read_sections(data, 0, 72, 144, TextCap)
        data_sections == read_sections(data, 28, 100, 172, DataCap)
    IN  IF text_sections.status = "panic" THEN Panicked
        ELSE IF data_sections.status = "panic" THEN Panicked
        ELSE IF \/ ~CanReadU32(data, 216)
                \/ ~CanReadU32(data, 220)
                \/ ~CanReadU32(data, 224)
        THEN Panicked
        ELSE [status |-> "ok",
              value |-> DolFile(text_sections.sections, data_sections.sections,
                                read_u32(data, 216), read_u32(data, 220),
                                read_u32(data, 224))]

(***************************************************************************)
(* DolFile::append and DolFile::to_bytes.                                  *)
(***************************************************************************)
\* a faulty variant of append: it takes the other image's BSS and entry values too
append_all(self, other) ==
    [other EXCEPT !.text_sections = self.text_sections \o @,
                  !.data_sections = self.data_sections \o @]

append(self, other) ==
    [self EXCEPT !.text_sections = @ \o other.text_sections,
                 !.data_sections = @ \o other.data_sections]

\* the loop over text_sections, from its i-th pass on; st holds header,
\* data and offset
RECURSIVE to_bytes_text(_, _, _)
to_bytes_text(sections, i, st) ==
    IF i >= Len(sections) THEN st
    \* header.text_section_offsets[i] of a [u32; 7]
    ELSE IF i >= TextCap THEN Panicked
    ELSE
      LET section == sections[i + 1]
          header == [st.header EXCEPT
                       !.text_section_offsets[i + 1] = AsU32(st.offset),
                       !.text_section_addresses[i + 1] = section.address,
                       !.text_section_sizes[i + 1] = AsU32(Len(section.data))]
      IN  to_bytes_text(sections, i + 1,
                        [status |-> "ok", header |-> header,
                         offset |-> st.offset + Len(section.data),
                         data |-> st.data \o section.data])

\* the loop over data_sections
RECURSIVE to_bytes_data(_, _, _)
to_bytes_data(sections, i, st) ==
    IF i >= Len(sections) THEN st
    ELSE IF i >= DataCap THEN Panicked
    ELSE
      LET section == sections[i + 1]
          header == [st.header EXCEPT
                       !.data_section_offsets[i + 1] = AsU32(st.offset),
                       !.data_section_addresses[i + 1] = section.address,
                       !.data_section_sizes[i + 1] = AsU32(Len(section.data))]
      IN  to_bytes_data(sections, i + 1,
                        [status |-> "ok", header |-> header,
                         offset |-> st.offset + Len(section.data),
                         data |-> st.data \o section.data])

\* a faulty variant of PayloadStart: the payload is taken to start one word early
PayloadStartEarly == HeaderSize - 4

\* let mut offset = 256
PayloadStart == HeaderSize

\* DolFile::to_bytes: [status |-> "ok", value |-> bytes] or a panic
to_bytes(self) ==
    LET header == [DolHeader_new EXCEPT !.bss_address = self.bss_address,
                                        !.bss_size = self.bss_size,
                                        !.entry_point = self.entry_point]
        st0 == [status |-> "ok", header |-> header, offset |-> PayloadStart,
                data |-> <<>>]
        st1 == to_bytes_text(self.text_sections, 0, st0)
        st2 == IF st1.status = "panic" THEN Panicked
               ELSE to_bytes_data(self.data_sections, 0, st1)
    IN  IF st2.status = "panic" THEN Panicked
        ELSE [status |-> "ok",
              value |-> DolHeader_to_bytes(st2.header) \o st2.data]

(***************************************************************************)
(* DolFile::patch.                                                         *)
(***************************************************************************)
Instruction(address, data) == [address |-> address, data |-> data]

\* text_sections.iter_mut().chain(data_sections.iter_mut())
Chain(self) == self.text_sections \o self.data_sections

\* .find(|d| d.address <= address && d.address + d.data.len() as u32 > address)
\* from the j-th section of the chain on: the position found (from 1), 0 for
\* None, or a panic (the addition overflows in a build that checks it)
RECURSIVE find_from(_, _, _)
find_from(sections, address, j) ==
    IF j > Len(sections) THEN [status |-> "ok", at |-> 0]
    ELSE
      LET d == sections[j]
          end == AddU32(d.address, AsU32(Len(d.data)))
      IN  IF ~LeU32(d.address, address) THEN find_from(sections, address, j + 1)
          ELSE IF end.overflow /\ overflow_checks THEN Panicked
          ELSE IF LtU32(address, end.value) THEN [status |-> "ok", at |-> j]
          ELSE find_from(sections, address, j + 1)

\* self with the at-th section of the chain given the bytes data
WithSectionData(self, at, data) ==
    IF at <= Len(self.text_sections)
    THEN [self EXCEPT !.text_sections[at].data = data]
    ELSE [self EXCEPT
            !.data_sections[at - Len(self.text_sections)].data = data]

\* the loop of patch from its k-th instruction on; trace lists, for every
\* instruction the loop came to, the position find returned (0 for None,
\* -1 when find itself panicked)
RECURSIVE patch_from(_, _, _, _)
patch_from(self, instructions, k, trace) ==
    IF k > Len(instructions)
    THEN [status |-> "ok", self |-> self, trace |-> trace]
    ELSE
      LET instruction == instructions[k]
          found == find_from(Chain(self), instruction.address, 1)
      IN  IF found.status = "panic"
          THEN [status |-> "panic", self |-> self,
                trace |-> Append(trace, -1)]
          ELSE IF found.at = 0
          \* bail!("Patch couldn't be applied.")
          THEN [status |-> "err", self |-> self, trace |-> Append(trace, 0)]
          ELSE
            LET section == Chain(self)[found.at]
                index == AsUsize(SubU32(instruction.address, section.address))
            IN  IF ~CanWriteU32(section.data, index)
                THEN [status |-> "panic", self |-> self,
                      trace |-> Append(trace, found.at)]
                ELSE patch_from(
                       WithSectionData(self, found.at,
                                       write_u32(section.data, index,
                                                 instruction.data)),
                       instructions, k + 1, Append(trace, found.at))

patch(self, instructions) == patch_from(self, instructions, 1, <<>>)

(***************************************************************************)
(* The inputs the caller draws from.                                       *)
(***************************************************************************)
\* 0x80003000, six bytes
SecA == Section(<<32768, 12288>>, <<17, 34, 51, 68, 85, 102>>)
\* 0x80003004, four bytes: its first two addresses are the last two of SecA
SecB == Section(<<32768, 12292>>, <<119, 136, 153, 170>>)
\* 0x80004000, no bytes
SecE == Section(<<32768, 16384>>, <<>>)
\* 0xFFFFFFFC, eight bytes: its range ends past the last 32-bit address
SecH == Section(<<65535, 65532>>, <<1, 2, 3, 4, 5, 6, 7, 8>>)

TextPalette == {SecA, SecE, SecH}
DataPalette == {SecB, SecE}

SeqsUpTo(S, n) == UNION {[1..k -> S] : k \in 0..n}

\* 0x80400000, 0x00001000, 0x80003100
Images ==
    {DolFile(t, d, <<32832, 0>>, <<0, 4096>>, <<32768, 12544>>) :
        t \in SeqsUpTo(TextPalette, MaxText),
        d \in SeqsUpTo(DataPalette, MaxDataSecs)}

\* the j-th of a run of two-byte sections, at 0x8001_0000 + 0x100 * j
SecN(j) == Section(<<32769, 256 * j>>, <<j, j + 100>>)

\* the images handed to append: one data section; six text sections; eleven
\* data sections.  Their BSS and entry values differ from those of Images.
Others ==
    {DolFile(<<>>, <<SecN(1)>>, <<32848, 0>>, <<0, 32>>, <<32769, 256>>),
     DolFile([j \in 1..6 |-> SecN(j)], <<>>, <<32848, 0>>, <<0, 32>>,
             <<32769, 256>>),
     DolFile(<<>>, [j \in 1..11 |-> SecN(j)], U32Zero, U32Zero, U32Zero)}

\* the instructions handed to patch: 0xDEADBEEF at 0x80003001, 0x01020304 at
\* 0x80003002, 0xDEADBEEF at 0x80003004, at 0x00000010 and at 0xFFFFFFFD
Edits ==
    {Instruction(<<32768, 12289>>, <<57005, 48879>>),
     Instruction(<<32768, 12290>>, <<258, 772>>),
     Instruction(<<32768, 12292>>, <<57005, 48879>>),
     Instruction(<<0, 16>>, <<57005, 48879>>),
     Instruction(<<65535, 65533>>, <<57005, 48879>>)}

\* the header words a caller may overwrite before decoding, as <<position,
\* value>>: a size of 0 in text slot 0, text slot 1 and data slot 0; a size
\* of 1 in text slot 2; a size of 0xFFFF in text slot 0; an offset of
\* 0xFFFFFFFF and of 0 in text slot 0
Pokes ==
    {<<144, U32Zero>>, <<148, U32Zero>>, <<172, U32Zero>>, <<152, <<0, 1>>>>,
     <<144, <<0, 65535>>>>, <<0, <<65535, 65535>>>>, <<0, U32Zero>>}

\* the lengths a caller may cut the buffer to
CutLens(bytes) == {0, 227, 228, 255, HeaderSize, Len(bytes) - 1}

\* the buffers handed to parse: the encoded file, a prefix of it, or the
\* file with one header word overwritten
ParseInputs(bytes) ==
    {bytes}
    \cup {SubSeq(bytes, 1, n) : n \in CutLens(bytes) \cap 0..Len(bytes)}
    \cup {write_u32(bytes, pk[1], pk[2]) :
            pk \in {q \in Pokes : CanWriteU32(bytes, q[1])}}

(***************************************************************************)
(* The state machine: a caller constructs an image, may append another     *)
(* image to it, and then either patches it or encodes it and decodes the   *)
(* bytes again.  last records the latest call: its arguments, the image it *)
(* started from and how it ended ("ok", "err" for Err(..), "panic").       *)
(***************************************************************************)
Init ==
    /\ image \in Images
    /\ file = <<>>
    /\ pc = "loaded"
    /\ overflow_checks \in BOOLEAN
    /\ last = [op |-> "new"]

Append_(other) ==
    /\ pc = "loaded"
    /\ image' = append(image, other)
    /\ pc' = "merged"
    /\ last' = [op |-> "append", pre |-> image, other |-> other]
    /\ UNCHANGED <<file, overflow_checks>>

ToBytes ==
    /\ pc \in {"loaded", "merged"}
    /\ LET r == to_bytes(image)
       IN  /\ file' = IF r.status = "ok" THEN r.value ELSE file
           /\ pc' = IF r.status = "ok" THEN "encoded" ELSE "panicked"
           /\ last' = [op |-> "to_bytes", status |-> r.status, pre |-> image]
    /\ UNCHANGED <<image, overflow_checks>>

Parse(data) ==
    /\ pc = "encoded"
    /\ LET r == parse(data)
       IN  /\ image' = IF r.status = "ok" THEN r.value ELSE image
           /\ pc' = IF r.status = "ok" THEN "decoded" ELSE "panicked"
           /\ last' = [op |-> "parse", status |-> r.status, data |-> data,
                       source |-> image]
    /\ UNCHANGED <<file, overflow_checks>>

Patch(instructions) ==
    /\ pc = "loaded"
    /\ LET r == patch(image, instructions)
       IN  /\ image' = r.self
           /\ pc' = IF r.status = "panic" THEN "panicked" ELSE "patched"
           /\ last' = [op |-> "patch", status |-> r.status, pre |-> image,
                       instructions |-> instructions, trace |-> r.trace]
    /\ UNCHANGED <<file, overflow_checks>>

Next ==
    \/ \E other \in Others : Append_(other)
    \/ ToBytes
    \/ \E data \in ParseInputs(file) : Parse(data)
    \/ \E instructions \in SeqsUpTo(Edits, MaxEdits) : Patch(instructions)

Spec == Init /\ [][Next]_vars

(***************************************************************************)
(* What the claims are stated with.                                        *)
(***************************************************************************)
Max(S) == CHOOSE x \in S : \A y \in S : y <= x
Min(S) == CHOOSE x \in S : \A y \in S : x <= y

RECURSIVE SumLen(_)
SumLen(sections) ==
    IF sections = <<>> THEN 0
    ELSE Len(Head(sections).data) + SumLen(Tail(sections))

AllNonEmpty(img) == \A j \in 1..Len(Chain(img)) : Chain(img)[j].data # <<>>

WithinCapacity(img) ==
    Len(img.text_sections) <= TextCap /\ Len(img.data_sections) <= DataCap

\* the i-th word (from 0) of the header table that starts at byte base
Field(data, base, i) == read_u32(data, base + 4 * i)

\* the index of the first slot of a table whose size word is 0, max if none
FirstZeroSlot(data, sizes_at, max) ==
    LET Z == {i \in 0..(max - 1) : Field(data, sizes_at, i) = U32Zero}
    IN  IF Z = {} THEN max ELSE Min(Z)

\* the sections that slots 0 .. k-1 of a table describe
SlotSections(data, offsets_at, addresses_at, sizes_at, k) ==
    [i \in 1..k |->
        LET at == AsUsize(Field(data, offsets_at, i - 1))
            size == AsUsize(Field(data, sizes_at, i - 1))
        IN  Section(Field(data, addresses_at, i - 1),
                    SubSeq(data, at + 1, at + size))]

\* a table has a slot of size 0 followed by a slot of another size
ZeroThenNonZero(data, sizes_at, max) ==
    LET k == FirstZeroSlot(data, sizes_at, max)
    IN  k >= 1 /\ \E i \in (k + 1)..(max - 1) : Field(data, sizes_at, i) # U32Zero

\* the n-th (from 1) of the four big-endian bytes of value
BigEndianByte(value, n) ==
    CASE n = 1 -> value[1] \div 256
      [] n = 2 -> value[1] % 256
      [] n = 3 -> value[2] \div 256
      [] n = 4 -> value[2] % 256

\* the first section of the chain whose true range [address, address + len)
\* holds a (from 1), 0 if none: the end is the sum as a number, not as a u32
TrueFirst(sections, a) ==
    LET In == {j \in 1..Len(sections) :
                  /\ LeU32(sections[j].address, a)
                  /\ LET end == AddU32(sections[j].address,
                                       AsU32(Len(sections[j].data)))
                     IN  end.overflow \/ LtU32(a, end.value)}
    IN  IF In = {} THEN 0 ELSE Min(In)

\* the index in section s of the chain that instruction ins writes from
IndexIn(sections, s, ins) == AsUsize(SubU32(ins.address, sections[s].address))

\* byte j (from 1) of section s of the chain once the first n instructions
\* have been written in order, instruction i into section sel[i]
ByteAfter(pre, instructions, sel, n, s, j) ==
    LET cover == {i \in 1..n :
                     /\ sel[i] = s
                     /\ IndexIn(Chain(pre), s, instructions[i]) < j
                     /\ j <= IndexIn(Chain(pre), s, instructions[i]) + 4}
    IN  IF cover = {} THEN Chain(pre)[s].data[j]
        ELSE LET i == Max(cover)
             IN  BigEndianByte(instructions[i].data,
                               j - IndexIn(Chain(pre), s, instructions[i]))

\* img is pre with the first n instructions written, instruction i into
\* section sel[i], and nothing else changed
IsPreWithWrites(img, pre, instructions, sel, n) ==
    /\ Len(img.text_sections) = Len(pre.text_sections)
    /\ Len(img.data_sections) = Len(pre.data_sections)
    /\ \A s \in 1..Len(Chain(pre)) :
          /\ Chain(img)[s].address = Chain(pre)[s].address
          /\ Len(Chain(img)[s].data) = Len(Chain(pre)[s].data)
          /\ \A j \in 1..Len(Chain(pre)[s].data) :
                Chain(img)[s].data[j]
                  = ByteAfter(pre, instructions, sel, n, s, j)
    /\ img.bss_address = pre.bss_address
    /\ img.bss_size = pre.bss_size
    /\ img.entry_point = pre.entry_point

\* the instructions a patch call wrote: all it came to, but the last one
\* when the call did not end with Ok
Written == IF last.status = "ok" THEN Len(last.trace) ELSE Len(last.trace) - 1

(***************************************************************************)
(* C1.                                                                     *)
(***************************************************************************)
\* C1 as stated: for any image within capacity, parse(to_bytes(image)) is
\* an image with the same sections (number, order, address, bytes) and the
\* same BSS address, BSS size and entry address.
C1_RoundTrip ==
    (last.op = "parse" /\ last.data = file /\ WithinCapacity(last.source))
        => (last.status = "ok" /\ image = last.source)

\* C1 as amended: the same, for an image within capacity none of whose
\* sections is empty.
C1_RoundTripNonEmpty ==
    (last.op = "parse" /\ last.data = file /\ WithinCapacity(last.source)
        /\ AllNonEmpty(last.source))
        => (last.status = "ok" /\ image = last.source)

C1_Witness ==
    /\ last.op = "parse" /\ last.data = file /\ AllNonEmpty(last.source)
    /\ Len(last.source.text_sections) = TextCap
    /\ Len(last.source.data_sections) >= 1
    /\ image = last.source

(***************************************************************************)
(* C2.                                                                     *)
(***************************************************************************)
\* C2: for every instruction patch comes to, the section it selects is the
\* first of the chain (text sections, then data sections) with
\* address <= a and a < address + len, the sum taken as the true end of the
\* range, and patch finds no section only when there is none.
C2_Resolution ==
    last.op = "patch"
        => \A i \in 1..Len(last.trace) :
              last.trace[i]
                = TrueFirst(Chain(last.pre), last.instructions[i].address)

(***************************************************************************)
(* C3.                                                                     *)
(***************************************************************************)
\* C3: when the k-th instruction is the first whose address lies in no
\* section, patch returns an error, the image is the one it started from
\* with the k - 1 instructions before it written, and no later instruction
\* is written.
C3_BatchAbort ==
    last.op = "patch"
        => LET sel == [i \in 1..Len(last.instructions) |->
                          TrueFirst(Chain(last.pre),
                                    last.instructions[i].address)]
               none == {i \in 1..Len(last.instructions) : sel[i] = 0}
           IN  none # {}
                 => /\ last.status = "err"
                    /\ Len(last.trace) = Min(none)
                    /\ IsPreWithWrites(image, last.pre, last.instructions,
                                       sel, Min(none) - 1)

(***************************************************************************)
(* C4.                                                                     *)
(***************************************************************************)
\* C4: to_bytes of an image with more than 7 text sections or more than 11
\* data sections ends with an explicit error: it returns no buffer, and it
\* does not end any other way.
C4_CapacityError ==
    (last.op = "to_bytes" /\ ~WithinCapacity(last.pre))
        => last.status = "err"

(***************************************************************************)
(* C5.                                                                     *)
(***************************************************************************)
\* C5: when the section patch selects for an instruction has fewer than 4
\* bytes from the instruction's index on, patch returns an error and leaves
\* every section's length as it was.
C5_SpanOverrun ==
    (last.op = "patch" /\ last.trace # <<>>
        /\ last.trace[Len(last.trace)] > 0)
        => LET k == Len(last.trace)
               s == last.trace[k]
               index == IndexIn(Chain(last.pre), s, last.instructions[k])
           IN  index + 4 > Len(Chain(last.pre)[s].data)
                 => /\ last.status = "err"
                    /\ \A t \in 1..Len(Chain(last.pre)) :
                          Len(Chain(image)[t].data)
                            = Len(Chain(last.pre)[t].data)

(***************************************************************************)
(* C6.                                                                     *)
(***************************************************************************)
\* C6: parse of a buffer shorter than 256 bytes does not return an image.
\* (The claim asks for more, an explicit decoding error; this is the part
\* of it that fails whatever a panic is counted as.)
C6_ShortBuffer ==
    (last.op = "parse" /\ Len(last.data) < HeaderSize)
        => last.status # "ok"

(***************************************************************************)
(* C7.                                                                     *)
(***************************************************************************)
\* C7: the text sections parse returns are those of slots 0 .. k-1 of the
\* 7-slot text table, in slot order, k the first slot of size 0 (7 if none),
\* each with the slot's address and the size bytes at the slot's offset;
\* the same for the data sections and the 11-slot data table.
C7_Truncation ==
    (last.op = "parse" /\ last.status = "ok")
        => /\ image.text_sections
                = SlotSections(last.data, 0, 72, 144,
                               FirstZeroSlot(last.data, 144, TextCap))
           /\ image.data_sections
                = SlotSections(last.data, 28, 100, 172,
                               FirstZeroSlot(last.data, 172, DataCap))

C7_Witness ==
    /\ last.op = "parse" /\ last.status = "ok"
    /\ ZeroThenNonZero(last.data, 144, TextCap)
    /\ Len(image.text_sections) = FirstZeroSlot(last.data, 144, TextCap)

(***************************************************************************)
(* C8.                                                                     *)
(***************************************************************************)
\* C8: after append the text sections are the previous ones followed by
\* the other image's, the data sections likewise, and the BSS address, BSS
\* size and entry address are the previous ones.
C8_Append ==
    last.op = "append"
        => /\ image.text_sections
                = last.pre.text_sections \o last.other.text_sections
           /\ image.data_sections
                = last.pre.data_sections \o last.other.data_sections
           /\ image.bss_address = last.pre.bss_address
           /\ image.bss_size = last.pre.bss_size
           /\ image.entry_point = last.pre.entry_point

C8_Witness ==
    /\ last.op = "append"
    /\ Len(last.pre.text_sections) = 1 /\ Len(last.pre.data_sections) = 1
    /\ Len(last.other.data_sections) = 1
    /\ Len(image.text_sections) = 1 /\ Len(image.data_sections) = 2
    /\ last.other.bss_address # last.pre.bss_address
    /\ last.other.entry_point # last.pre.entry_point

(***************************************************************************)
(* C9.                                                                     *)
(***************************************************************************)
\* the slots of one table in the bytes to_bytes returned: before is the
\* length of all sections packed ahead of the table's own
TableExact(bytes, sections, before, offsets_at, addresses_at, sizes_at, cap) ==
    /\ \A i \in 1..Len(sections) :
          LET at == HeaderSize + before + SumLen(SubSeq(sections, 1, i - 1))
          IN  /\ Field(bytes, offsets_at, i - 1) = AsU32(at)
              /\ Field(bytes, addresses_at, i - 1) = sections[i].address
              /\ Field(bytes, sizes_at, i - 1) = AsU32(Len(sections[i].data))
              /\ SubSeq(bytes, at + 1, at + Len(sections[i].data))
                   = sections[i].data
    /\ \A i \in (Len(sections) + 1)..cap :
          /\ Field(bytes, offsets_at, i - 1) = U32Zero
          /\ Field(bytes, addresses_at, i - 1) = U32Zero
          /\ Field(bytes, sizes_at, i - 1) = U32Zero

\* C9: the buffer to_bytes returns is 256 + the sections' total length
\* long; every section's slot holds offset 256 + the length of the sections
\* before it (text, then data), its address and its length, and its bytes
\* lie at that offset; unused slots are 0; the BSS address, BSS size and
\* entry address are at 0xD8, 0xDC and 0xE0.
C9_Packing ==
    (last.op = "to_bytes" /\ last.status = "ok")
        => /\ Len(file) = HeaderSize + SumLen(Chain(image))
           /\ TableExact(file, image.text_sections, 0, 0, 72, 144, TextCap)
           /\ TableExact(file, image.data_sections,
                         SumLen(image.text_sections), 28, 100, 172, DataCap)
           /\ read_u32(file, 216) = image.bss_address
           /\ read_u32(file, 220) = image.bss_size
           /\ read_u32(file, 224) = image.entry_point

C9_Witness ==
    /\ last.op = "to_bytes" /\ last.status = "ok"
    /\ Len(image.text_sections) >= 2 /\ Len(image.data_sections) >= 1
    /\ AllNonEmpty(image)
    /\ Len(file) > HeaderSize

====
